---- MODULE Spec2Model ----
(***************************************************************************)
(* Model of scripts/retrain.py: the orchestration performed by main(),     *)
(* with the ML framework, the file system and distutils.copy_tree as the   *)
(* environment.  One action per step of main(); every framework call may   *)
(* raise, and nothing in retrain.py catches an exception.                  *)
(***************************************************************************)
EXTENDS Integers, Sequences, FiniteSets, TLC

VARIABLES FLAGS, tree, pc, trace, failed_at, fault, feeders, labels_file,
          model, checkpoint_dir, model_dir, untrained_path, output_path,
          fit_args, calls, log, sessions_cleared

vars == <<FLAGS, tree, pc, trace, failed_at, fault, feeders, labels_file,
          model, checkpoint_dir, model_dir, untrained_path, output_path,
          fit_args, calls, log, sessions_cleared>>

(***************************************************************************)
(* Bounds and program constants                                            *)
(***************************************************************************)
\* largest number of class sub-directories under image_dir/train
MaxClasses == 3

\* retrain.py:201 and :202
num_train_images == 2055
num_labels == 5
\* retrain.py:227
validation_steps == 5

AllNames == <<"A", "B", "C", "D", "E", "F">>

\* values of the command-line flags that the runs are started with
StepValues == {200, 7, 0}
BatchValues == {-100, 0, 100, 300, 3000}
OptimizerValues == {"sgd", "adam", "rmsprop", "None"}
LearningRateValues == {"0.01", "0.001"}
\* the flags main() never reads: epochs, architecture, test/validation batch
UnreadValues ==
    { [epochs |-> 10, architecture |-> "mobilenetv2_1.0_224",
       test_batch_size |-> -1, validation_batch_size |-> 100],
      [epochs |-> 3, architecture |-> "mobilenet_1.0_224",
       test_batch_size |-> 50, validation_batch_size |-> -1] }

\* Python's // on integers: floor division, ZeroDivisionError when b = 0
FloorDiv(a, b) == IF b > 0 THEN a \div b ELSE (-a) \div (-b)

(***************************************************************************)
(* Directories: a function from file name to file content                  *)
(***************************************************************************)
EmptyDir == [n \in {} |-> "x"]
\* the files save_keras_model writes into its export directory
ExportFiles == {"saved_model.pb", "variables"}
SavedModel(weights) == [n \in ExportFiles |-> weights]

\* model_dir before the run: absent, empty, or left over from earlier runs
InitialModelDirs ==
    { [exists |-> FALSE, files |-> EmptyDir],
      [exists |-> TRUE, files |-> EmptyDir],
      [exists |-> TRUE, files |-> SavedModel("old")],
      [exists |-> TRUE,
       files |-> [n \in ExportFiles \cup {"stale.txt"} |-> "old"]] }

\* class_indices of the training feeder: a dict (insertion-ordered sequence
\* of <<class name, index>>) that is injective onto 0..n-1
Injective(f) == \A i, j \in DOMAIN f : f[i] = f[j] => i = j
ClassIndices ==
    UNION { { [i \in 1..n |-> <<AllNames[i], p[i]>>] :
                p \in {q \in [1..n -> 0..(n-1)] : Injective(q)} } :
            n \in 1..MaxClasses }
\* flow_from_directory numbers the sorted class directories 0, 1, ...
SortedClassIndices ==
    { [i \in 1..n |-> <<AllNames[i], i - 1>>] : n \in 1..MaxClasses }

(***************************************************************************)
(* save_labels_to_file: {v: k for k, v in trained_classes.items()}         *)
(***************************************************************************)
DictPut(d, key, val) ==
    [x \in (DOMAIN d) \cup {key} |-> IF x = key THEN val ELSE d[x]]

\* variant: keys taken from the position in items() instead of the value
classes_by_idx_enumerated(items) ==
    [i \in 0..(Len(items) - 1) |-> items[i + 1][1]]

RECURSIVE classes_by_idx(_)
classes_by_idx(items) ==
    IF items = <<>> THEN <<>>
    ELSE LET n == Len(items)
         IN DictPut(classes_by_idx(SubSeq(items, 1, n - 1)),
                    items[n][2], items[n][1])

(***************************************************************************)
(* create_model: optimizer lookup with fallback                            *)
(***************************************************************************)
available_optimizers(learning_rate) ==
    [o \in {"sgd", "adam"} |->
        IF o = "sgd" THEN [class |-> "SGD", lr |-> learning_rate]
        ELSE [class |-> "Adam", lr |-> learning_rate]]

\* variant: the else branch picks the other entry of the dictionary
choice_adam_fallback(optimizer, learning_rate) ==
    IF optimizer \in DOMAIN available_optimizers(learning_rate)
    THEN available_optimizers(learning_rate)[optimizer]
    ELSE available_optimizers(learning_rate)["adam"]

choice(optimizer, learning_rate) ==
    IF optimizer \in DOMAIN available_optimizers(learning_rate)
    THEN available_optimizers(learning_rate)[optimizer]
    ELSE available_optimizers(learning_rate)["sgd"]

\* evaluate_model recompiles with this fixed optimizer
MomentumOptimizer == [class |-> "Momentum", lr |-> "0.001"]

NoModel == [built |-> FALSE, base |-> "none", units |-> 0,
            optimizer |-> [class |-> "none", lr |-> "none"],
            weights |-> "none"]

(***************************************************************************)
(* The calls each step makes into the framework                            *)
(***************************************************************************)
Call(fn, args) == [fn |-> fn, args |-> args]

\* variant: validation and test generators get their own batch-size flags
create_data_feeders_calls_own_batch(F) ==
    << Call("flow_from_directory",
            <<"train", F.image_size, F.train_batch_size, "augmented">>),
       Call("flow_from_directory",
            <<"val", F.image_size, F.validation_batch_size, "plain">>),
       Call("flow_from_directory",
            <<"test", F.image_size, F.test_batch_size, "plain">>) >>

create_data_feeders_calls(F) ==
    << Call("flow_from_directory",
            <<"train", F.image_size, F.train_batch_size, "augmented">>),
       Call("flow_from_directory",
            <<"val", F.image_size, F.train_batch_size, "plain">>),
       Call("flow_from_directory",
            <<"test", F.image_size, F.train_batch_size, "plain">>) >>

create_model_calls(F) ==
    << Call("MobileNetV2", <<"imagenet", F.image_size>>),
       Call("Dense", <<num_labels>>),
       Call("compile", <<choice(F.optimizer_name, F.learning_rate)>>) >>

save_keras_model_calls == << Call("save_keras_model", <<"checkpoints">>) >>

evaluate_model_calls(path) ==
    << Call("load_keras_model", <<path>>),
       Call("compile", <<MomentumOptimizer>>),
       Call("evaluate_generator", <<"test">>) >>

create_callbacks_calls ==
    << Call("ModelCheckpoint", <<"checkpoint.pb">>),
       Call("TensorBoard", <<"summaries_dir">>) >>

\* variant: steps per epoch taken from the step count
steps_per_epoch_from_steps(F) ==
    FloorDiv(F.how_many_training_steps, F.train_batch_size)

\* variant: at least one step per epoch
steps_per_epoch_clamped(F) ==
    IF FloorDiv(num_train_images, F.train_batch_size) = 0 THEN 1
    ELSE FloorDiv(num_train_images, F.train_batch_size)

steps_per_epoch(F) == FloorDiv(num_train_images, F.train_batch_size)
epochs(F) == FloorDiv(F.how_many_training_steps, steps_per_epoch(F))

fit_generator_calls(F) ==
    << Call("fit_generator",
            <<steps_per_epoch(F), epochs(F), validation_steps>>) >>

(***************************************************************************)
(* Control flow of main(): the steps in program order                      *)
(***************************************************************************)
Order == << "makedirs", "create_data_feeders", "save_labels_to_file",
            "create_model", "baseline", "fit", "export", "final_eval",
            "clear_session" >>

Position(step) == CHOOSE i \in 1..Len(Order) : Order[i] = step

\* variant: the session is cleared before the final evaluation
Successor_teardown_early(step) ==
    IF step = "export" THEN "clear_session"
    ELSE IF step = "clear_session" THEN "final_eval"
    ELSE IF step = "final_eval" THEN "done"
    ELSE Order[Position(step) + 1]

Successor(step) ==
    IF Position(step) = Len(Order) THEN "done"
    ELSE Order[Position(step) + 1]

\* a step returns normally and main() goes on to the next statement
Advance(step) ==
    /\ pc' = Successor(step)
    /\ trace' = Append(trace, step)
    /\ UNCHANGED <<failed_at, fault>>

\* variant: a try/finally around main() that still clears the session
Crash_finally(step, kind) ==
    /\ pc' = "clear_session"
    /\ trace' = Append(trace, step)
    /\ failed_at' = step
    /\ fault' = kind

\* a step raises: nothing catches it, the process terminates
Crash(step, kind) ==
    /\ pc' = "crashed"
    /\ trace' = Append(trace, step)
    /\ failed_at' = step
    /\ fault' = kind

\* the parsed command line (retrain.py:242-343)
Flags(steps, batches, optimizers, rates, unread) ==
    { [how_many_training_steps |-> s, train_batch_size |-> b,
       optimizer_name |-> o, learning_rate |-> lr,
       image_size |-> 224, epochs |-> u.epochs,
       architecture |-> u.architecture,
       test_batch_size |-> u.test_batch_size,
       validation_batch_size |-> u.validation_batch_size] :
      s \in steps, b \in batches, o \in optimizers, lr \in rates,
      u \in unread }

\* the state when main() is entered
Start(flags, trees, dirs) ==
    /\ FLAGS \in flags
    /\ tree \in trees
    /\ model_dir \in dirs
    /\ pc = "makedirs"
    /\ trace = <<>>
    /\ failed_at = "none"
    /\ fault = "none"
    /\ feeders = [built |-> FALSE, class_indices |-> <<>>, batch_size |-> <<>>]
    /\ labels_file = [exists |-> FALSE, data |-> <<>>]
    /\ model = NoModel
    /\ checkpoint_dir = [exists |-> FALSE, exports |-> <<>>,
                         checkpoint |-> "none"]
    /\ untrained_path = 0
    /\ output_path = 0
    /\ fit_args = [computed |-> FALSE, invoked |-> FALSE,
                   steps_per_epoch |-> 0, epochs |-> 0]
    /\ calls = <<>>
    /\ log = <<>>
    /\ sessions_cleared = 0

\* every flag combination, class directories numbered as the framework does
Init ==
    Start(Flags(StepValues, BatchValues, OptimizerValues, LearningRateValues,
                UnreadValues),
          SortedClassIndices, InitialModelDirs)

\* every injective class_indices, default flags but for the batch size
InitLabels ==
    Start(Flags({200}, BatchValues, {"sgd"}, {"0.01"}, UnreadValues),
          ClassIndices, InitialModelDirs)

\* retrain.py:181-188  os.makedirs(checkpoint_dir, exist_ok=True)
MakeDirs ==
    /\ pc = "makedirs"
    /\ checkpoint_dir' = [checkpoint_dir EXCEPT !.exists = TRUE]
    /\ Advance("makedirs")
    /\ UNCHANGED <<FLAGS, tree, feeders, labels_file, model, model_dir,
                   untrained_path, output_path, fit_args, calls, log,
                   sessions_cleared>>

MakeDirsFail ==
    /\ pc = "makedirs"
    /\ Crash("makedirs", "OSError")
    /\ UNCHANGED <<FLAGS, tree, feeders, labels_file, model, checkpoint_dir,
                   model_dir, untrained_path, output_path, fit_args, calls,
                   log, sessions_cleared>>

\* retrain.py:191-193 and 110-139: all three generators get batch_size
CreateDataFeeders ==
    /\ pc = "create_data_feeders"
    /\ feeders' = [built |-> TRUE, class_indices |-> tree,
                   batch_size |-> <<FLAGS.train_batch_size,
                                    FLAGS.train_batch_size,
                                    FLAGS.train_batch_size>>]
    /\ calls' = calls \o create_data_feeders_calls(FLAGS)
    /\ Advance("create_data_feeders")
    /\ UNCHANGED <<FLAGS, tree, labels_file, model, checkpoint_dir,
                   model_dir, untrained_path, output_path, fit_args, log,
                   sessions_cleared>>

\* one of the three flow_from_directory calls raises
CreateDataFeedersFail ==
    /\ pc = "create_data_feeders"
    /\ \E k \in 1..3 :
          calls' = calls \o SubSeq(create_data_feeders_calls(FLAGS), 1, k)
    /\ Crash("create_data_feeders", "framework")
    /\ UNCHANGED <<FLAGS, tree, feeders, labels_file, model, checkpoint_dir,
                   model_dir, untrained_path, output_path, fit_args, log,
                   sessions_cleared>>

\* retrain.py:197 and 167-177
SaveLabelsToFile ==
    /\ pc = "save_labels_to_file"
    /\ labels_file' = [exists |-> TRUE,
                       data |-> classes_by_idx(feeders.class_indices)]
    /\ Advance("save_labels_to_file")
    /\ UNCHANGED <<FLAGS, tree, feeders, model, checkpoint_dir, model_dir,
                   untrained_path, output_path, fit_args, calls, log,
                   sessions_cleared>>

\* os.makedirs or np.save raises: nothing is written
SaveLabelsToFileFail ==
    /\ pc = "save_labels_to_file"
    /\ Crash("save_labels_to_file", "OSError")
    /\ UNCHANGED <<FLAGS, tree, feeders, labels_file, model, checkpoint_dir,
                   model_dir, untrained_path, output_path, fit_args, calls,
                   log, sessions_cleared>>

\* retrain.py:201-207 and 35-107
create_model(F) ==
    [built |-> TRUE, base |-> "MobileNetV2", units |-> num_labels,
     optimizer |-> choice(F.optimizer_name, F.learning_rate),
     weights |-> "untrained"]

CreateModel ==
    /\ pc = "create_model"
    /\ model' = create_model(FLAGS)
    /\ calls' = calls \o create_model_calls(FLAGS)
    /\ Advance("create_model")
    /\ UNCHANGED <<FLAGS, tree, feeders, labels_file, checkpoint_dir,
                   model_dir, untrained_path, output_path, fit_args, log,
                   sessions_cleared>>

\* MobileNetV2 (weights download), Dense or compile raises
CreateModelFail ==
    /\ pc = "create_model"
    /\ \E k \in 1..3 :
          calls' = calls \o SubSeq(create_model_calls(FLAGS), 1, k)
    /\ Crash("create_model", "framework")
    /\ UNCHANGED <<FLAGS, tree, feeders, labels_file, model, checkpoint_dir,
                   model_dir, untrained_path, output_path, fit_args, log,
                   sessions_cleared>>

(***************************************************************************)
(* save_keras_model, evaluate_model, copy_tree                             *)
(***************************************************************************)
\* save_keras_model(model, checkpoint_dir): a fresh export directory
save_keras_model(m, dir) ==
    [dir EXCEPT !.exports = Append(dir.exports, SavedModel(m.weights))]

ExportPath(dir) == [dir |-> "checkpoints", export |-> Len(dir.exports)]
ModelDirPath == [dir |-> "model_dir", export |-> 0]

\* variant: the accuracy is computed but not logged
evaluate_model_silent(path, files, lg) == lg

\* retrain.py:156-164: load, recompile, evaluate, log one accuracy
evaluate_model(path, files, lg) ==
    Append(lg, [path |-> path, weights |-> files["variables"]])

\* distutils copy_tree(src, dst): creates dst, copies every file of src
\* over what is there, removes nothing
copy_tree(src, dst) ==
    [exists |-> TRUE,
     files |-> [n \in (DOMAIN dst.files) \cup (DOMAIN src) |->
                  IF n \in DOMAIN src THEN src[n] ELSE dst.files[n]]]

\* retrain.py:209-211
Baseline ==
    /\ pc = "baseline"
    /\ checkpoint_dir' = save_keras_model(model, checkpoint_dir)
    /\ untrained_path' = Len(checkpoint_dir'.exports)
    /\ log' = evaluate_model(ExportPath(checkpoint_dir'),
                             checkpoint_dir'.exports[untrained_path'], log)
    /\ calls' = calls \o save_keras_model_calls
                      \o evaluate_model_calls(ExportPath(checkpoint_dir'))
    /\ Advance("baseline")
    /\ UNCHANGED <<FLAGS, tree, feeders, labels_file, model, model_dir,
                   output_path, fit_args, sessions_cleared>>

BaselineSaveFail ==
    /\ pc = "baseline"
    /\ calls' = calls \o save_keras_model_calls
    /\ Crash("baseline", "framework")
    /\ UNCHANGED <<FLAGS, tree, feeders, labels_file, model, checkpoint_dir,
                   model_dir, untrained_path, output_path, fit_args, log,
                   sessions_cleared>>

BaselineEvalFail ==
    /\ pc = "baseline"
    /\ checkpoint_dir' = save_keras_model(model, checkpoint_dir)
    /\ untrained_path' = Len(checkpoint_dir'.exports)
    /\ \E k \in 1..3 :
          calls' = calls \o save_keras_model_calls
                     \o SubSeq(evaluate_model_calls(
                                  ExportPath(checkpoint_dir')), 1, k)
    /\ Crash("baseline", "framework")
    /\ UNCHANGED <<FLAGS, tree, feeders, labels_file, model, model_dir,
                   output_path, fit_args, log, sessions_cleared>>

\* retrain.py:215-228
FitDefined(F) == F.train_batch_size # 0 /\ steps_per_epoch(F) # 0

\* what fit_generator leaves in the model
fit_generator(m, spe, ep) ==
    IF spe > 0 /\ ep > 0 THEN [m EXCEPT !.weights = "trained"] ELSE m

\* line 220 or line 225 divides by zero before fit_generator is entered
FitZeroDivision ==
    /\ pc = "fit"
    /\ ~FitDefined(FLAGS)
    /\ fit_args' = IF FLAGS.train_batch_size = 0 THEN fit_args
                   ELSE [fit_args EXCEPT
                           !.computed = TRUE,
                           !.steps_per_epoch = steps_per_epoch(FLAGS)]
    /\ calls' = calls \o create_callbacks_calls
    /\ Crash("fit", "ZeroDivisionError")
    /\ UNCHANGED <<FLAGS, tree, feeders, labels_file, model, checkpoint_dir,
                   model_dir, untrained_path, output_path, log,
                   sessions_cleared>>

Fit ==
    /\ pc = "fit"
    /\ FitDefined(FLAGS)
    /\ fit_args' = [computed |-> TRUE, invoked |-> TRUE,
                    steps_per_epoch |-> steps_per_epoch(FLAGS),
                    epochs |-> epochs(FLAGS)]
    /\ model' = fit_generator(model, steps_per_epoch(FLAGS), epochs(FLAGS))
    /\ checkpoint_dir' = [checkpoint_dir EXCEPT !.checkpoint = model'.weights]
    /\ calls' = calls \o create_callbacks_calls \o fit_generator_calls(FLAGS)
    /\ Advance("fit")
    /\ UNCHANGED <<FLAGS, tree, feeders, labels_file, model_dir,
                   untrained_path, output_path, log, sessions_cleared>>

\* fit_generator raises part-way: the weights may or may not have moved
FitFail ==
    /\ pc = "fit"
    /\ FitDefined(FLAGS)
    /\ fit_args' = [computed |-> TRUE, invoked |-> TRUE,
                    steps_per_epoch |-> steps_per_epoch(FLAGS),
                    epochs |-> epochs(FLAGS)]
    /\ model' \in {model,
                   fit_generator(model, steps_per_epoch(FLAGS),
                                 epochs(FLAGS))}
    /\ calls' = calls \o create_callbacks_calls \o fit_generator_calls(FLAGS)
    /\ Crash("fit", "framework")
    /\ UNCHANGED <<FLAGS, tree, feeders, labels_file, checkpoint_dir,
                   model_dir, untrained_path, output_path, log,
                   sessions_cleared>>

\* retrain.py:230-233
copy_tree_calls(path) == << Call("copy_tree", <<path>>) >>

Export ==
    /\ pc = "export"
    /\ checkpoint_dir' = save_keras_model(model, checkpoint_dir)
    /\ output_path' = Len(checkpoint_dir'.exports)
    /\ model_dir' = copy_tree(checkpoint_dir'.exports[output_path'],
                              model_dir)
    /\ calls' = calls \o save_keras_model_calls
                      \o copy_tree_calls(ExportPath(checkpoint_dir'))
    /\ Advance("export")
    /\ UNCHANGED <<FLAGS, tree, feeders, labels_file, model, untrained_path,
                   fit_args, log, sessions_cleared>>

ExportSaveFail ==
    /\ pc = "export"
    /\ calls' = calls \o save_keras_model_calls
    /\ Crash("export", "framework")
    /\ UNCHANGED <<FLAGS, tree, feeders, labels_file, model, checkpoint_dir,
                   model_dir, untrained_path, output_path, fit_args, log,
                   sessions_cleared>>

\* copy_tree raises after copying only the files in done
ExportCopyFail ==
    /\ pc = "export"
    /\ checkpoint_dir' = save_keras_model(model, checkpoint_dir)
    /\ output_path' = Len(checkpoint_dir'.exports)
    /\ \E done \in (SUBSET ExportFiles) \ {ExportFiles} :
          model_dir' = copy_tree(
              [n \in done |-> checkpoint_dir'.exports[output_path'][n]],
              model_dir)
    /\ calls' = calls \o save_keras_model_calls
                      \o copy_tree_calls(ExportPath(checkpoint_dir'))
    /\ Crash("export", "OSError")
    /\ UNCHANGED <<FLAGS, tree, feeders, labels_file, model, untrained_path,
                   fit_args, log, sessions_cleared>>

\* retrain.py:235-236
FinalEval ==
    /\ pc = "final_eval"
    /\ log' = evaluate_model(ModelDirPath, model_dir.files, log)
    /\ calls' = calls \o evaluate_model_calls(ModelDirPath)
    /\ Advance("final_eval")
    /\ UNCHANGED <<FLAGS, tree, feeders, labels_file, model, checkpoint_dir,
                   model_dir, untrained_path, output_path, fit_args,
                   sessions_cleared>>

FinalEvalFail ==
    /\ pc = "final_eval"
    /\ \E k \in 1..3 :
          calls' = calls \o SubSeq(evaluate_model_calls(ModelDirPath), 1, k)
    /\ Crash("final_eval", "framework")
    /\ UNCHANGED <<FLAGS, tree, feeders, labels_file, model, checkpoint_dir,
                   model_dir, untrained_path, output_path, fit_args, log,
                   sessions_cleared>>

\* retrain.py:238
clear_session_calls == << Call("clear_session", <<>>) >>

ClearSession ==
    /\ pc = "clear_session"
    /\ sessions_cleared' = sessions_cleared + 1
    /\ calls' = calls \o clear_session_calls
    /\ Advance("clear_session")
    /\ UNCHANGED <<FLAGS, tree, feeders, labels_file, model, checkpoint_dir,
                   model_dir, untrained_path, output_path, fit_args, log>>

Next ==
    \/ MakeDirs
    \/ MakeDirsFail
    \/ CreateDataFeeders
    \/ CreateDataFeedersFail
    \/ SaveLabelsToFile
    \/ SaveLabelsToFileFail
    \/ CreateModel
    \/ CreateModelFail
    \/ Baseline
    \/ BaselineSaveFail
    \/ BaselineEvalFail
    \/ FitZeroDivision
    \/ Fit
    \/ FitFail
    \/ Export
    \/ ExportSaveFail
    \/ ExportCopyFail
    \/ FinalEval
    \/ FinalEvalFail
    \/ ClearSession

Spec == Init /\ [][Next]_vars

SpecLabels == InitLabels /\ [][Next]_vars

(***************************************************************************)
(* Properties                                                              *)
(***************************************************************************)
IsPrefix(s, t) == Len(s) <= Len(t) /\ SubSeq(t, 1, Len(s)) = s
CallsOf(fn) == {i \in 1..Len(calls) : calls[i].fn = fn}
Completed(step) ==
    \E i \in 1..Len(trace) : trace[i] = step /\ failed_at # step

\* C1 as stated: the training loop is invoked with
\* steps_per_epoch = how_many_training_steps // train_batch_size and
\* epochs = how_many_training_steps // steps_per_epoch, whenever both
\* divisions are defined.
C1_AsStated ==
    (/\ fit_args.invoked
     /\ FLAGS.train_batch_size # 0
     /\ FloorDiv(FLAGS.how_many_training_steps, FLAGS.train_batch_size) # 0)
    => /\ fit_args.steps_per_epoch =
            FloorDiv(FLAGS.how_many_training_steps, FLAGS.train_batch_size)
       /\ fit_args.epochs =
            FloorDiv(FLAGS.how_many_training_steps,
                     FloorDiv(FLAGS.how_many_training_steps,
                              FLAGS.train_batch_size))

\* C1 amended: the training loop is invoked with
\* steps_per_epoch = 2055 // train_batch_size (2055 = num_train_images) and
\* epochs = how_many_training_steps // steps_per_epoch, floor division; a
\* run that gets past the training step has invoked it with these values;
\* 200 steps and batch size 100 give steps_per_epoch = 20 and epochs = 10.
C1_Amended ==
    /\ fit_args.invoked =>
         /\ FLAGS.train_batch_size # 0
         /\ FloorDiv(2055, FLAGS.train_batch_size) # 0
         /\ fit_args.steps_per_epoch = FloorDiv(2055, FLAGS.train_batch_size)
         /\ fit_args.epochs =
              FloorDiv(FLAGS.how_many_training_steps,
                       FloorDiv(2055, FLAGS.train_batch_size))
         /\ \E i \in CallsOf("fit_generator") :
               calls[i].args = <<fit_args.steps_per_epoch, fit_args.epochs, 5>>
         /\ (FLAGS.how_many_training_steps = 200
             /\ FLAGS.train_batch_size = 100)
            => (fit_args.steps_per_epoch = 20 /\ fit_args.epochs = 10)
    /\ Completed("fit") => fit_args.invoked

C1_Witness ==
    /\ Completed("fit")
    /\ FLAGS.how_many_training_steps = 200
    /\ FLAGS.train_batch_size = 100
    /\ fit_args.steps_per_epoch = 20
    /\ fit_args.epochs = 10

\* what C2 says follows the division-by-zero fault
NoTrainingNoExportNoTeardown ==
    /\ ~fit_args.invoked
    /\ CallsOf("fit_generator") = {}
    /\ output_path = 0
    /\ CallsOf("copy_tree") = {}
    /\ Len(log) <= 1
    /\ sessions_cleared = 0
    /\ pc \notin {"export", "final_eval", "clear_session", "done"}
    /\ failed_at = "fit" => (/\ fault = "ZeroDivisionError"
                             /\ fit_args.computed
                             /\ fit_args.steps_per_epoch = 0)

\* C2 as stated: whenever train_batch_size > how_many_training_steps the
\* computed steps_per_epoch is 0, the run faults with a division by zero,
\* the training loop is never invoked and no export, final evaluation or
\* teardown follows.
C2_AsStated ==
    FLAGS.train_batch_size > FLAGS.how_many_training_steps
    => NoTrainingNoExportNoTeardown

\* C2 amended: whenever train_batch_size > 2055 (num_train_images) the
\* computed steps_per_epoch is 0 and a run that reaches the epoch
\* computation ends there in a division-by-zero fault: the training loop is
\* never invoked and no export, final evaluation or teardown follows.
C2_Amended ==
    FLAGS.train_batch_size > 2055 => NoTrainingNoExportNoTeardown

C2_Witness ==
    /\ FLAGS.train_batch_size > 2055
    /\ pc = "crashed"
    /\ failed_at = "fit"
    /\ fault = "ZeroDivisionError"
    /\ fit_args.computed
    /\ fit_args.steps_per_epoch = 0

C4_AsStated ==
    Completed("export")
    => model_dir.files = checkpoint_dir.exports[output_path]

\* C5: a run that completes has invoked evaluate_model exactly twice: first
\* on the saved untrained model, before the training loop; then on
\* model_dir, after the export copy; each logs one accuracy value.
C5_TwoEvaluations ==
    /\ Cardinality(CallsOf("load_keras_model")) <= 2
    /\ Len(log) <= Cardinality(CallsOf("evaluate_generator"))
    /\ pc = "done" =>
         /\ Cardinality(CallsOf("load_keras_model")) = 2
         /\ Cardinality(CallsOf("evaluate_generator")) = 2
         /\ Len(log) = 2
         /\ log[1] = [path |-> [dir |-> "checkpoints",
                                export |-> untrained_path],
                      weights |-> "untrained"]
         /\ log[2] = [path |-> ModelDirPath,
                      weights |-> model_dir.files["variables"]]
         /\ model_dir.files["variables"] = model.weights
         /\ \E l1, l2 \in CallsOf("load_keras_model") :
            \E e1, e2 \in CallsOf("evaluate_generator") :
            \E f \in CallsOf("fit_generator") :
            \E c \in CallsOf("copy_tree") :
               /\ l1 < e1 /\ e1 < f /\ f < c /\ c < l2 /\ l2 < e2
               /\ calls[l1].args = <<log[1].path>>
               /\ calls[l2].args = <<ModelDirPath>>

C5_Witness ==
    /\ pc = "done"
    /\ Len(log) = 2
    /\ log[1].weights = "untrained"
    /\ log[2].weights = "trained"

\* C6: the mapping save_labels_to_file persists is the inverse of the
\* feeder's class_indices: one entry per class, keys exactly 0..n-1, and
\* persisted[class_indices[name]] = name for every class name.
C6_LabelsInverse ==
    labels_file.exists =>
      LET ci == feeders.class_indices
          n == Len(ci)
      IN /\ DOMAIN labels_file.data = 0..(n - 1)
         /\ Cardinality(DOMAIN labels_file.data) = n
         /\ \A i \in 1..n : labels_file.data[ci[i][2]] = ci[i][1]

C6_Witness ==
    /\ labels_file.exists
    /\ feeders.class_indices = <<<<"A", 2>>, <<"B", 0>>, <<"C", 1>>>>
    /\ labels_file.data[2] = "A"
    /\ labels_file.data[0] = "B"
    /\ labels_file.data[1] = "C"

\* C7 as stated: the classification layer has as many output units as the
\* label index discovered by the training feeder has classes.
C7_AsStated ==
    model.built => /\ model.units = Len(feeders.class_indices)
                   /\ model.units = Cardinality(DOMAIN labels_file.data)

\* C8: the steps run one after another in program order, none twice; a
\* completed run has run all of them; the session is cleared exactly once,
\* as the last step, after every framework call.
C8_ProgramOrder ==
    /\ IsPrefix(trace, Order)
    /\ pc \notin {"done", "crashed"} => pc = Order[Len(trace) + 1]
    /\ sessions_cleared <= 1
    /\ sessions_cleared = Cardinality(CallsOf("clear_session"))
    /\ sessions_cleared = 1 =>
         /\ pc = "done"
         /\ calls[Len(calls)].fn = "clear_session"
    /\ pc = "done" => (trace = Order /\ sessions_cleared = 1)

C8_Witness ==
    /\ pc = "done"
    /\ trace = Order
    /\ sessions_cleared = 1

\* C9: a failure in any step ends the run: the failed step is the last one
\* executed, and the session is not cleared; after a training failure there
\* is no export, no copy to model_dir and no final evaluation.
C9_FailureIsFatal ==
    failed_at # "none" =>
      /\ pc = "crashed"
      /\ trace = SubSeq(Order, 1, Position(failed_at))
      /\ sessions_cleared = 0
      /\ CallsOf("clear_session") = {}
      /\ failed_at = "fit" =>
           /\ output_path = 0
           /\ CallsOf("copy_tree") = {}
           /\ Cardinality(CallsOf("save_keras_model")) = 1
           /\ Len(log) = 1

C9_Witness ==
    /\ failed_at = "fit"
    /\ fault = "framework"
    /\ fit_args.invoked
    /\ pc = "crashed"

\* the calls of a whole run started with flags F (ends at the division
\* fault when the epoch count is undefined)
RunCalls(F) ==
    create_data_feeders_calls(F) \o create_model_calls(F)
    \o save_keras_model_calls
    \o evaluate_model_calls([dir |-> "checkpoints", export |-> 1])
    \o create_callbacks_calls
    \o (IF FitDefined(F)
        THEN fit_generator_calls(F) \o save_keras_model_calls
             \o copy_tree_calls([dir |-> "checkpoints", export |-> 2])
             \o evaluate_model_calls(ModelDirPath) \o clear_session_calls
        ELSE <<>>)

\* the flag records that differ from F in at most the four unread flags
UnreadVariants(F) ==
    { [F EXCEPT !.epochs = e, !.architecture = a,
                !.test_batch_size = t, !.validation_batch_size = v] :
        e \in {3, 10}, a \in {"mobilenetv2_1.0_224", "mobilenet_1.0_224"},
        t \in {-1, 50}, v \in {-1, 100} }

====
